---- MODULE Spec2Model ----
(***************************************************************************)
(* FlightApiService (services/flightApi): the credential lifecycle         *)
(* (accessToken / tokenExpiry in memory, amadeus_token /                   *)
(* amadeus_token_expiry in localStorage) and the three public operations   *)
(* searchFlights, getPriceHistory and getAirports.  Every call is an       *)
(* async function: it runs synchronously up to its next await, so one      *)
(* action is the code between two awaits of one call.                      *)
(***************************************************************************)
EXTENDS Integers, Sequences, FiniteSets, TLC

(* ------------------------------ bounds -------------------------------- *)
\* wall-clock instants are 0..MaxTime
MaxTime == 2
\* the provider's expires_in is 1..MaxTtl
MaxTtl == 2
\* an offers answer lists at most MaxOffers offers
MaxOffers == 2

\* the calls of the service that may be in flight together: a search starts
\* searchFlights and getPriceHistory side by side
Calls == {"c1", "c2"}
Times == 0..MaxTime
ExpiresIn == 1..MaxTtl
\* bearer tokens the provider hands out
Tokens == {"t1", "t2"}

(* --------------------------- JavaScript values ------------------------- *)
\* `Date | null` = null, and localStorage.getItem of a missing key
NoDate == -1
\* new Date(NaN) / new Date("garbage"): every comparison with it is false
InvalidDate == -2
\* `string | null` = null, and localStorage.getItem of a missing key
NoToken == "null"
\* data.access_token of a body that has no such member
Undefined == "undef"
\* what localStorage.setItem(key, undefined) stores: the string "undefined"
UndefinedStr == "undefined"

\* JavaScript truthiness of a token value (a non-empty string)
Truthy(t) == t \notin {NoToken, Undefined}

\* faulty variant: an expiry equal to the current time still counts as later
IsLaterOrNow(e, t) == e >= 0 /\ e >= t

\* `expiry > new Date()`: false for null and for an Invalid Date
IsLater(e, t) == e >= 0 /\ e > t

\* localStorage.setItem coerces its value to a string
ToStored(t) == IF t = Undefined THEN UndefinedStr ELSE t

VARIABLES
    now,          \* current time (Date.now())
    configured,   \* VITE_AMADEUS_CLIENT_ID and _SECRET are both set
    accessToken,  \* this.accessToken
    tokenExpiry,  \* this.tokenExpiry
    lsToken,      \* localStorage amadeus_token
    lsExpiry,     \* localStorage amadeus_token_expiry
    pc,           \* per call: the await the async function is suspended at
    op,           \* per call: the operation running
    arg,          \* per call: the operation's argument
    event,        \* what the last step did that its caller or the provider
                  \* can see: a data request sent, or a promise settled
    app           \* the state of the App component: searchForm, flights,
                  \* isLoading, hasSearched, airportSuggestions,
                  \* showSuggestions and the timer of searchTimeoutRef

vars == <<now, configured, accessToken, tokenExpiry, lsToken, lsExpiry,
          pc, op, arg, event, app>>

NoEvent == [kind |-> "none"]
NoResp == [kind |-> "none"]
NoArg == <<>>

(* ------------------------------ strings ------------------------------- *)
\* A string is the sequence of its characters.
UpperCase == <<"A", "B", "C", "D", "E", "F", "G", "H", "I", "J", "K", "L", "M", "N", "O", "P", "Q", "R", "S", "T", "U", "V", "W", "X", "Y", "Z">>
LowerCase == <<"a", "b", "c", "d", "e", "f", "g", "h", "i", "j", "k", "l", "m", "n", "o", "p", "q", "r", "s", "t", "u", "v", "w", "x", "y", "z">>

\* String.prototype.toLowerCase on one character
LowerOf == [c \in {UpperCase[i] : i \in 1..Len(UpperCase)} |->
               LowerCase[CHOOSE i \in 1..Len(UpperCase) : UpperCase[i] = c]]
LowerChar(c) == IF c \in DOMAIN LowerOf THEN LowerOf[c] ELSE c

\* String.prototype.toLowerCase
ToLowerCase(s) == [i \in 1..Len(s) |-> LowerChar(s[i])]

\* String.prototype.indexOf, 1-based; 0 when pat does not occur
IndexOf(s, pat) ==
    LET hits == {i \in 1..(Len(s) - Len(pat) + 1) :
                    SubSeq(s, i, i + Len(pat) - 1) = pat}
    IN  IF hits = {} THEN 0
        ELSE CHOOSE i \in hits : \A j \in hits : i <= j

\* String.prototype.includes
Includes(s, pat) == IndexOf(s, pat) # 0

\* Array.prototype.slice(0, n)
Slice(s, n) == SubSeq(s, 1, IF Len(s) < n THEN Len(s) ELSE n)

(* ------------------------- airport suggestions ------------------------ *)
\* the hardcoded catalog of getMockAirports, in Object.entries order
mockAirports == <<
    [code |-> <<"J", "F", "K">>,
     city |-> <<"N", "e", "w", " ", "Y", "o", "r", "k">>,
     name |-> <<"J", "o", "h", "n", " ", "F", ".", " ", "K", "e", "n", "n", "e", "d", "y", " ", "I", "n", "t", "e", "r", "n", "a", "t", "i", "o", "n", "a", "l">>],
    [code |-> <<"L", "A", "X">>,
     city |-> <<"L", "o", "s", " ", "A", "n", "g", "e", "l", "e", "s">>,
     name |-> <<"L", "o", "s", " ", "A", "n", "g", "e", "l", "e", "s", " ", "I", "n", "t", "e", "r", "n", "a", "t", "i", "o", "n", "a", "l">>],
    [code |-> <<"O", "R", "D">>,
     city |-> <<"C", "h", "i", "c", "a", "g", "o">>,
     name |-> <<"O", "'", "H", "a", "r", "e", " ", "I", "n", "t", "e", "r", "n", "a", "t", "i", "o", "n", "a", "l">>],
    [code |-> <<"M", "I", "A">>,
     city |-> <<"M", "i", "a", "m", "i">>,
     name |-> <<"M", "i", "a", "m", "i", " ", "I", "n", "t", "e", "r", "n", "a", "t", "i", "o", "n", "a", "l">>],
    [code |-> <<"S", "F", "O">>,
     city |-> <<"S", "a", "n", " ", "F", "r", "a", "n", "c", "i", "s", "c", "o">>,
     name |-> <<"S", "a", "n", " ", "F", "r", "a", "n", "c", "i", "s", "c", "o", " ", "I", "n", "t", "e", "r", "n", "a", "t", "i", "o", "n", "a", "l">>],
    [code |-> <<"S", "E", "A">>,
     city |-> <<"S", "e", "a", "t", "t", "l", "e">>,
     name |-> <<"S", "e", "a", "t", "t", "l", "e", "-", "T", "a", "c", "o", "m", "a", " ", "I", "n", "t", "e", "r", "n", "a", "t", "i", "o", "n", "a", "l">>],
    [code |-> <<"B", "O", "S">>,
     city |-> <<"B", "o", "s", "t", "o", "n">>,
     name |-> <<"L", "o", "g", "a", "n", " ", "I", "n", "t", "e", "r", "n", "a", "t", "i", "o", "n", "a", "l">>],
    [code |-> <<"D", "E", "N">>,
     city |-> <<"D", "e", "n", "v", "e", "r">>,
     name |-> <<"D", "e", "n", "v", "e", "r", " ", "I", "n", "t", "e", "r", "n", "a", "t", "i", "o", "n", "a", "l">>],
    [code |-> <<"L", "H", "R">>,
     city |-> <<"L", "o", "n", "d", "o", "n">>,
     name |-> <<"H", "e", "a", "t", "h", "r", "o", "w", " ", "A", "i", "r", "p", "o", "r", "t">>],
    [code |-> <<"C", "D", "G">>,
     city |-> <<"P", "a", "r", "i", "s">>,
     name |-> <<"C", "h", "a", "r", "l", "e", "s", " ", "d", "e", " ", "G", "a", "u", "l", "l", "e", " ", "A", "i", "r", "p", "o", "r", "t">>] >>

\* keywords getAirports is called with
Keywords == {<<>>,
             <<"i", "n">>,
             <<"s">>,
             <<"L", "A">>,
             <<"l", "o", "n">>,
             <<"K", "E", "N", "N", "E", "D", "Y">>,
             <<"z", "z">>}

\* slice(0, 5) of getMockAirports and of getAirports
MaxSuggestions == 5

\* faulty variant: the name is not searched
MockMatchesNoName(a, query) ==
    \/ Includes(ToLowerCase(a.code), ToLowerCase(query))
    \/ Includes(ToLowerCase(a.city), ToLowerCase(query))

\* the filter predicate of getMockAirports
MockMatches(a, query) ==
    \/ Includes(ToLowerCase(a.code), ToLowerCase(query))
    \/ Includes(ToLowerCase(a.city), ToLowerCase(query))
    \/ Includes(ToLowerCase(a.name), ToLowerCase(query))

\* Array.prototype.filter with the predicate of getMockAirports
RECURSIVE FilterMatches(_, _)
FilterMatches(s, query) ==
    IF s = <<>> THEN <<>>
    ELSE (IF MockMatches(Head(s), query) THEN <<Head(s)>> ELSE <<>>)
         \o FilterMatches(Tail(s), query)

\* faulty variant: the catalog is truncated but not filtered
GetMockAirportsNoFilter(query) == Slice(mockAirports, MaxSuggestions)

getMockAirports(query) ==
    Slice(FilterMatches(mockAirports, query), MaxSuggestions)

\* getMockAirports, tabulated over the keywords
MockAirportsOf == [query \in Keywords |-> getMockAirports(query)] @@ <<>>

\* a location of the provider's answer that has no `address` member
NoAddress == [cityName |-> <<>>]

\* the map callback of getAirports: `address?.cityName || iataCode`
MapLocation(location) ==
    [code |-> location.iataCode,
     city |-> IF location.address.cityName # <<>>
              THEN location.address.cityName ELSE location.iataCode,
     name |-> location.name]

\* faulty variant: the live suggestions are returned whole
LiveSuggestionsNoSlice(data) == [i \in 1..Len(data) |-> MapLocation(data[i])]

\* `data.data?.map(...) || []` then slice(0, 5)
LiveSuggestions(data) ==
    Slice([i \in 1..Len(data) |-> MapLocation(data[i])], MaxSuggestions)

\* locations the provider may answer with, in its order
LocationPool == <<
    [iataCode |-> <<"L", "H", "R">>, name |-> <<"H", "E", "A", "T", "H", "R", "O", "W">>,
     address |-> [cityName |-> <<"L", "O", "N", "D", "O", "N">>]],
    [iataCode |-> <<"L", "G", "W">>, name |-> <<"G", "A", "T", "W", "I", "C", "K">>,
     address |-> [cityName |-> <<"L", "O", "N", "D", "O", "N">>]],
    [iataCode |-> <<"L", "C", "Y">>, name |-> <<"C", "I", "T", "Y", " ", "A", "I", "R", "P", "O", "R", "T">>,
     address |-> NoAddress],
    [iataCode |-> <<"L", "O", "N">>, name |-> <<"L", "O", "N", "D", "O", "N">>,
     address |-> [cityName |-> <<>>]],
    [iataCode |-> <<"Y", "X", "U">>, name |-> <<"L", "O", "N", "D", "O", "N", " ", "I", "N", "T", "L">>,
     address |-> [cityName |-> <<"L", "O", "N", "D", "O", "N">>]],
    [iataCode |-> <<"E", "L", "S">>, name |-> <<"E", "A", "S", "T", " ", "L", "O", "N", "D", "O", "N">>,
     address |-> [cityName |-> <<"E", "A", "S", "T", " ", "L", "O", "N", "D", "O", "N">>]],
    [iataCode |-> <<"L", "A", "X">>, name |-> <<"L", "O", "S", " ", "A", "N", "G", "E", "L", "E", "S", " ", "I", "N", "T", "L">>,
     address |-> [cityName |-> <<"L", "O", "S", " ", "A", "N", "G", "E", "L", "E", "S">>]] >>

(* ------------------------------ numbers ------------------------------- *)
\* A JavaScript number is kept as an exact fraction [n, d] with d > 0.
\* Math.round: the nearest integer, halves towards +Infinity
Round(n, d) == (2 * n + d) \div (2 * d)

\* Math.max
Max(a, b) == IF a >= b THEN a ELSE b

RECURSIVE SumTotals(_)
\* prices.reduce((sum, price) => sum + price, 0)
SumTotals(data) ==
    IF data = <<>> THEN 0 ELSE Head(data).price.total + SumTotals(Tail(data))

(* ------------------------------- dates -------------------------------- *)
\* A Date is a local calendar day (1 = 1 January 2026), a local hour and the
\* browser's time zone.  The local getters read the day, toISOString reads
\* the same instant in UTC.
BaseYear == 2026
YearDays == 365
DaysBeforeMonth == <<0, 31, 59, 90, 120, 151, 181, 212, 243, 273, 304, 334>>
\* 1 January 2026 is a Thursday: getDay() = 4
FirstWeekday == 4
\* America/New_York in 2026: daylight time from 8 March to 1 November
DstStart == 67
DstEnd == 305

DayOfYear(n) == ((n - 1) % YearDays) + 1
YearOf(n) == BaseYear + ((n - 1) \div YearDays)

\* Date.prototype.getMonth (0 = January)
GetMonth(n) ==
    (CHOOSE m \in 1..12 :
        /\ DaysBeforeMonth[m] < DayOfYear(n)
        /\ (m = 12 \/ DayOfYear(n) <= DaysBeforeMonth[m + 1])) - 1

\* Date.prototype.getDate
GetDate(n) == DayOfYear(n) - DaysBeforeMonth[GetMonth(n) + 1]

\* Date.prototype.getDay (0 = Sunday)
GetDay(n) == (n - 1 + FirstWeekday) % 7

\* hours the zone's local time is ahead of UTC on local day n
UtcOffset(zone, n) ==
    IF zone = "UTC" THEN 0
    ELSE IF DstStart <= DayOfYear(n) /\ DayOfYear(n) < DstEnd THEN -4 ELSE -5

\* date.toISOString().split('T')[0] of local day n at clock.hour: the UTC
\* calendar date, as the fields of "YYYY-MM-DD"
IsoDate(clock, n) ==
    LET utc == ((n * 24 + clock.hour - UtcOffset(clock.zone, n)) \div 24)
    IN  <<YearOf(utc), GetMonth(utc) + 1, GetDate(utc)>>

\* a.localeCompare(b) on two "YYYY-MM-DD" strings: -1, 0 or 1
LocaleCompare(a, b) ==
    IF a = b THEN 0
    ELSE IF \E i \in 1..3 : a[i] < b[i] /\ \A j \in 1..(i - 1) : a[j] = b[j]
         THEN -1 ELSE 1

\* the instants getPriceHistory is called at
Clocks == [day : {75, 160}, hour : {12, 19}, zone : {"UTC", "America/New_York"}]

(* --------------------------- price history ---------------------------- *)
\* `let basePrice = 250 // fallback price`
FallbackPrice == 250
\* `for (let i = 30; i >= 0; i--)`
WindowDays == 30
\* Math.random() returns k / RandomSteps, k in 0..RandomSteps-1
RandomSteps == 8
\* a random source: its k-th call returns Draw(stream, k) / RandomSteps
RandomStreams == 0..(RandomSteps - 1)
Draw(stream, k) == (stream + k) % RandomSteps

\* faulty variant: the base price is the total of the first offer
BasePriceOfFirstOffer(response) ==
    IF response.kind = "ok" /\ response.hasData /\ Len(response.data) > 0
    THEN [n |-> response.data[1].price.total, d |-> 1]
    ELSE [n |-> FallbackPrice, d |-> 1]

\* the base price of getPriceHistory: the mean of the offers' totals, or
\* the fallback when the answer is not ok or holds no offer
BasePrice(response) ==
    IF response.kind = "ok" /\ response.hasData /\ Len(response.data) > 0
    THEN [n |-> SumTotals(response.data), d |-> Len(response.data)]
    ELSE [n |-> FallbackPrice, d |-> 1]

\* weekendMultiplier, in tenths
WeekendMultiplier(n) == IF GetDay(n) = 0 \/ GetDay(n) = 6 THEN 11 ELSE 10
\* seasonalMultiplier, in twentieths
SeasonalMultiplier(n) == IF GetMonth(n) >= 5 /\ GetMonth(n) <= 8 THEN 23 ELSE 20
\* faulty variant: the urgency is keyed to today, not to the oldest day
UrgencyMultiplierFromToday(i) ==
    IF i < 7 THEN 12 ELSE IF i < 14 THEN 11 ELSE 10

\* urgencyMultiplier, in tenths
UrgencyMultiplier(i) ==
    LET daysFromToday == IF i - WindowDays < 0 THEN WindowDays - i ELSE i - WindowDays
    IN  IF daysFromToday < 7 THEN 12 ELSE IF daysFromToday < 14 THEN 11 ELSE 10

\* faulty variant: the fluctuation is +-60%
VariationNumWide(k) == 2 * RandomSteps + 6 * k

\* 1 + randomVariation = 1 + (k / RandomSteps - 0.5) * 0.4, as a fraction
VariationNum(k) == 4 * RandomSteps + 2 * k
VariationDen == 5 * RandomSteps

\* `Math.round(basePrice * (1 + randomVariation) * weekendMultiplier *
\*  seasonalMultiplier * urgencyMultiplier)`
RawPrice(base, n, i, k) ==
    Round(base.n * VariationNum(k) * WeekendMultiplier(n)
              * SeasonalMultiplier(n) * UrgencyMultiplier(i),
          base.d * VariationDen * 10 * 20 * 10)

\* faulty variant: the 60% minimum is not applied
FinalPriceNoFloor(price, base) == price

\* `Math.max(price, Math.round(basePrice * 0.6))`
FinalPrice(price, base) == Max(price, Round(base.n * 6, base.d * 10))

\* the point pushed by iteration i (the k-th iteration) of the loop
HistoryPoint(base, clock, stream, i, k) ==
    [date  |-> IsoDate(clock, clock.day - i),
     price |-> FinalPrice(RawPrice(base, clock.day - i, i, Draw(stream, k)), base)]

\* the array after the loop `for (let i = 30; i >= 0; i--)`
Generated(base, clock, stream) ==
    [k \in 1..(WindowDays + 1) |->
        HistoryPoint(base, clock, stream, WindowDays + 1 - k, k)]

\* one step of the (stable) sort: x goes after every entry not later than it
RECURSIVE InsertByDate(_, _)
InsertByDate(sorted, x) ==
    IF sorted = <<>> THEN <<x>>
    ELSE IF LocaleCompare(Head(sorted).date, x.date) <= 0
         THEN <<Head(sorted)>> \o InsertByDate(Tail(sorted), x)
         ELSE <<x>> \o sorted

RECURSIVE SortPrefix(_, _)
SortPrefix(h, k) ==
    IF k = 0 THEN <<>> ELSE InsertByDate(SortPrefix(h, k - 1), h[k])

\* `history.sort((a, b) => a.date.localeCompare(b.date))`
SortByDate(h) == SortPrefix(h, Len(h))

\* lines 325-370 of getPriceHistory: base price, loop, sort
Synthesize(response, clock, stream) ==
    SortByDate(Generated(BasePrice(response), clock, stream))

(* --------------------------- flight offers ---------------------------- *)
\* faulty variant: only the first character of the occurrence is replaced
ReplaceFirstCharacter(s, pat, rep) ==
    LET i == IndexOf(s, pat)
    IN  IF i = 0 THEN s
        ELSE SubSeq(s, 1, i - 1) \o rep \o SubSeq(s, i + 1, Len(s))

\* String.prototype.replace(pat, rep) with a string pattern: the first
\* occurrence only
ReplaceFirst(s, pat, rep) ==
    LET i == IndexOf(s, pat)
    IN  IF i = 0 THEN s
        ELSE SubSeq(s, 1, i - 1) \o rep \o SubSeq(s, i + Len(pat), Len(s))

\* s.split('T'): the pieces of s between the occurrences of "T"
RECURSIVE SplitT(_)
SplitT(s) ==
    LET i == IndexOf(s, <<"T">>)
    IN  IF i = 0 THEN <<s>>
        ELSE <<SubSeq(s, 1, i - 1)>> \o SplitT(SubSeq(s, i + 1, Len(s)))

\* `flight-${index}`
FlightIdPrefix == <<"f", "l", "i", "g", "h", "t", "-">>
Digits == <<"0", "1", "2", "3", "4", "5", "6", "7", "8", "9">>

\* the map callback of searchFlights throws a TypeError on an offer without
\* itinerary, without segment, or with a timestamp without "T"
WellFormed(offer) ==
    /\ Len(offer.itineraries) > 0
    /\ Len(offer.itineraries[1].segments) > 0
    /\ LET segments == offer.itineraries[1].segments
       IN  /\ Len(SplitT(segments[1].departure.at)) > 1
           /\ Len(SplitT(segments[Len(segments)].arrival.at)) > 1

\* faulty variant: stops are counted on the last itinerary of the offer
NormalizeStopsOfLastItinerary(offer, index) ==
    LET itinerary    == offer.itineraries[1]
        firstSegment == itinerary.segments[1]
        lastSegment  == itinerary.segments[Len(itinerary.segments)]
    IN  [id           |-> IF offer.id # <<>> THEN offer.id
                          ELSE FlightIdPrefix \o <<Digits[index + 1]>>,
         airline      |-> firstSegment.carrierCode,
         flightNumber |-> <<firstSegment.carrierCode, " ", firstSegment.number>>,
         departure    |-> [airport |-> firstSegment.departure.iataCode,
                           city    |-> firstSegment.departure.iataCode,
                           time    |-> Slice(SplitT(firstSegment.departure.at)[2], 5),
                           date    |-> SplitT(firstSegment.departure.at)[1]],
         arrival      |-> [airport |-> lastSegment.arrival.iataCode,
                           city    |-> lastSegment.arrival.iataCode,
                           time    |-> Slice(SplitT(lastSegment.arrival.at)[2], 5),
                           date    |-> SplitT(lastSegment.arrival.at)[1]],
         duration     |-> ToLowerCase(ReplaceFirst(itinerary.duration, <<"P", "T">>, <<>>)),
         stops        |-> Len(offer.itineraries[Len(offer.itineraries)].segments) - 1,
         price        |-> offer.price.total,
         currency     |-> offer.price.currency,
         aircraft     |-> firstSegment.aircraft]

\* faulty variant: the arrival is read from the first segment
NormalizeArrivalOfFirstSegment(offer, index) ==
    LET itinerary    == offer.itineraries[1]
        firstSegment == itinerary.segments[1]
        lastSegment  == itinerary.segments[1]
    IN  [id           |-> IF offer.id # <<>> THEN offer.id
                          ELSE FlightIdPrefix \o <<Digits[index + 1]>>,
         airline      |-> firstSegment.carrierCode,
         flightNumber |-> <<firstSegment.carrierCode, " ", firstSegment.number>>,
         departure    |-> [airport |-> firstSegment.departure.iataCode,
                           city    |-> firstSegment.departure.iataCode,
                           time    |-> Slice(SplitT(firstSegment.departure.at)[2], 5),
                           date    |-> SplitT(firstSegment.departure.at)[1]],
         arrival      |-> [airport |-> lastSegment.arrival.iataCode,
                           city    |-> lastSegment.arrival.iataCode,
                           time    |-> Slice(SplitT(lastSegment.arrival.at)[2], 5),
                           date    |-> SplitT(lastSegment.arrival.at)[1]],
         duration     |-> ToLowerCase(ReplaceFirst(itinerary.duration, <<"P", "T">>, <<>>)),
         stops        |-> Len(itinerary.segments) - 1,
         price        |-> offer.price.total,
         currency     |-> offer.price.currency,
         aircraft     |-> firstSegment.aircraft]

\* the map callback of searchFlights; index is the 0-based array index
Normalize(offer, index) ==
    LET itinerary    == offer.itineraries[1]
        firstSegment == itinerary.segments[1]
        lastSegment  == itinerary.segments[Len(itinerary.segments)]
    IN  [id           |-> IF offer.id # <<>> THEN offer.id
                          ELSE FlightIdPrefix \o <<Digits[index + 1]>>,
         airline      |-> firstSegment.carrierCode,
         flightNumber |-> <<firstSegment.carrierCode, " ", firstSegment.number>>,
         departure    |-> [airport |-> firstSegment.departure.iataCode,
                           city    |-> firstSegment.departure.iataCode,
                           time    |-> Slice(SplitT(firstSegment.departure.at)[2], 5),
                           date    |-> SplitT(firstSegment.departure.at)[1]],
         arrival      |-> [airport |-> lastSegment.arrival.iataCode,
                           city    |-> lastSegment.arrival.iataCode,
                           time    |-> Slice(SplitT(lastSegment.arrival.at)[2], 5),
                           date    |-> SplitT(lastSegment.arrival.at)[1]],
         duration     |-> ToLowerCase(ReplaceFirst(itinerary.duration, <<"P", "T">>, <<>>)),
         stops        |-> Len(itinerary.segments) - 1,
         price        |-> offer.price.total,
         currency     |-> offer.price.currency,
         aircraft     |-> firstSegment.aircraft]

\* a one-way, non-stop offer
OfferDirect ==
    [id |-> <<"X">>,
     itineraries |-> <<
        [duration |-> <<"P", "T", "2", "H", "3", "0", "M">>,
         segments |-> <<
          [departure |-> [iataCode |-> "JFK", at |-> <<"2", "0", "2", "4", "-", "0", "6", "-", "0", "1", "T", "0", "8", ":", "0", "0", ":", "0", "0">>],
           arrival |-> [iataCode |-> "LAX", at |-> <<"2", "0", "2", "4", "-", "0", "6", "-", "0", "1", "T", "1", "1", ":", "3", "0", ":", "0", "0">>],
           carrierCode |-> "AA", number |-> "100", aircraft |-> "32A"]>>]>>,
     price |-> [total |-> 200, currency |-> "USD"]]

\* a round trip without id: one stop out, non-stop back
OfferRoundTrip ==
    [id |-> <<>>,
     itineraries |-> <<
        [duration |-> <<"P", "T", "1", "1", "H", "5", "M">>,
         segments |-> <<
          [departure |-> [iataCode |-> "JFK", at |-> <<"2", "0", "2", "4", "-", "0", "6", "-", "0", "1", "T", "1", "8", ":", "1", "5", ":", "0", "0">>],
           arrival |-> [iataCode |-> "LHR", at |-> <<"2", "0", "2", "4", "-", "0", "6", "-", "0", "2", "T", "0", "6", ":", "2", "0", ":", "0", "0">>],
           carrierCode |-> "BA", number |-> "178", aircraft |-> ""],
          [departure |-> [iataCode |-> "LHR", at |-> <<"2", "0", "2", "4", "-", "0", "6", "-", "0", "2", "T", "0", "8", ":", "0", "5", ":", "0", "0">>],
           arrival |-> [iataCode |-> "CDG", at |-> <<"2", "0", "2", "4", "-", "0", "6", "-", "0", "2", "T", "1", "0", ":", "2", "0", ":", "0", "0">>],
           carrierCode |-> "AF", number |-> "1681", aircraft |-> "320"]>>],
        [duration |-> <<"P", "T", "8", "H", "4", "0", "M">>,
         segments |-> <<
          [departure |-> [iataCode |-> "CDG", at |-> <<"2", "0", "2", "4", "-", "0", "6", "-", "0", "9", "T", "1", "3", ":", "0", "0", ":", "0", "0">>],
           arrival |-> [iataCode |-> "JFK", at |-> <<"2", "0", "2", "4", "-", "0", "6", "-", "0", "9", "T", "1", "5", ":", "4", "0", ":", "0", "0">>],
           carrierCode |-> "DL", number |-> "263", aircraft |-> ""]>>]>>,
     price |-> [total |-> 301, currency |-> "EUR"]]

\* an offer without itinerary
OfferNoItinerary ==
    [id |-> <<"N">>, itineraries |-> <<>>,
     price |-> [total |-> 120, currency |-> "USD"]]

\* an offer whose first itinerary has no segment
OfferNoSegment ==
    [id |-> <<"S">>,
     itineraries |-> <<[duration |-> <<"P", "T", "0", "M">>, segments |-> <<>>]>>,
     price |-> [total |-> 0, currency |-> "USD"]]

\* an offer with a negative total (a refund)
OfferNegative ==
    [id |-> <<"R">>,
     itineraries |-> <<
        [duration |-> <<"P", "T", "1", "H">>,
         segments |-> <<
          [departure |-> [iataCode |-> "BOS", at |-> <<"2", "0", "2", "4", "-", "0", "6", "-", "0", "1", "T", "0", "9", ":", "0", "0", ":", "0", "0">>],
           arrival |-> [iataCode |-> "JFK", at |-> <<"2", "0", "2", "4", "-", "0", "6", "-", "0", "1", "T", "1", "0", ":", "0", "0", ":", "0", "0">>],
           carrierCode |-> "B6", number |-> "17", aircraft |-> ""]>>]>>,
     price |-> [total |-> -100, currency |-> "USD"]]

\* a round trip of more than a day out, two stops out and one stop back;
\* its duration has a day part and therefore no "PT"
OfferOvernight ==
    [id |-> <<"O">>,
     itineraries |-> <<
        [duration |-> <<"P", "1", "D", "T", "2", "H", "3", "0", "M">>,
         segments |-> <<
          [departure |-> [iataCode |-> "SYD", at |-> <<"2", "0", "2", "4", "-", "0", "6", "-", "0", "1", "T", "2", "1", ":", "1", "0", ":", "0", "0">>],
           arrival |-> [iataCode |-> "SIN", at |-> <<"2", "0", "2", "4", "-", "0", "6", "-", "0", "2", "T", "0", "3", ":", "3", "0", ":", "0", "0">>],
           carrierCode |-> "QF", number |-> "81", aircraft |-> "333"],
          [departure |-> [iataCode |-> "SIN", at |-> <<"2", "0", "2", "4", "-", "0", "6", "-", "0", "2", "T", "0", "5", ":", "0", "0", ":", "0", "0">>],
           arrival |-> [iataCode |-> "DXB", at |-> <<"2", "0", "2", "4", "-", "0", "6", "-", "0", "2", "T", "0", "8", ":", "1", "5", ":", "0", "0">>],
           carrierCode |-> "EK", number |-> "405", aircraft |-> "77W"],
          [departure |-> [iataCode |-> "DXB", at |-> <<"2", "0", "2", "4", "-", "0", "6", "-", "0", "2", "T", "1", "0", ":", "0", "0", ":", "0", "0">>],
           arrival |-> [iataCode |-> "LHR", at |-> <<"2", "0", "2", "4", "-", "0", "6", "-", "0", "2", "T", "1", "4", ":", "4", "0", ":", "0", "0">>],
           carrierCode |-> "EK", number |-> "3", aircraft |-> "388"]>>],
        [duration |-> <<"P", "T", "2", "3", "H", "5", "M">>,
         segments |-> <<
          [departure |-> [iataCode |-> "LHR", at |-> <<"2", "0", "2", "4", "-", "0", "6", "-", "2", "0", "T", "2", "0", ":", "0", "0", ":", "0", "0">>],
           arrival |-> [iataCode |-> "SIN", at |-> <<"2", "0", "2", "4", "-", "0", "6", "-", "2", "1", "T", "1", "6", ":", "0", "0", ":", "0", "0">>],
           carrierCode |-> "SQ", number |-> "317", aircraft |-> "359"],
          [departure |-> [iataCode |-> "SIN", at |-> <<"2", "0", "2", "4", "-", "0", "6", "-", "2", "1", "T", "1", "8", ":", "0", "0", ":", "0", "0">>],
           arrival |-> [iataCode |-> "SYD", at |-> <<"2", "0", "2", "4", "-", "0", "6", "-", "2", "2", "T", "0", "5", ":", "0", "5", ":", "0", "0">>],
           carrierCode |-> "SQ", number |-> "231", aircraft |-> "359"]>>]>>,
     price |-> [total |-> 950, currency |-> "GBP"]]

(* ------------------------- the credential ----------------------------- *)
\* The four places a credential is kept, as one record.
Cred == [accessToken |-> accessToken, tokenExpiry |-> tokenExpiry,
         lsToken |-> lsToken, lsExpiry |-> lsExpiry]

\* loadStoredToken at time t
loadStoredToken(c, t) ==
    IF Truthy(c.lsToken) /\ c.lsExpiry # NoDate
    THEN IF IsLater(c.lsExpiry, t)
         THEN [c EXCEPT !.accessToken = c.lsToken, !.tokenExpiry = c.lsExpiry]
         ELSE [c EXCEPT !.lsToken = NoToken, !.lsExpiry = NoDate]
    ELSE c

\* faulty variant: the cached token is never reused
HasValidTokenNever(c, t) == FALSE

\* faulty variant: a call that finds an exchange in flight does not start
\* its own and goes on with whatever token is cached
HasValidTokenOrExchangeInFlight(c, t) ==
    \/ Truthy(c.accessToken) /\ c.tokenExpiry # NoDate /\ IsLater(c.tokenExpiry, t)
    \/ \E q \in Calls : pc[q] = "token_wait"

\* the first test of getAccessToken: a token is cached and not expired
HasValidToken(c, t) ==
    Truthy(c.accessToken) /\ c.tokenExpiry # NoDate /\ IsLater(c.tokenExpiry, t)

\* answers of the token endpoint: no answer at all, a non-success status, a
\* body that is not JSON, or a success whose body may lack access_token or
\* expires_in
TokenResponses ==
    {[kind |-> "network"], [kind |-> "http_error"], [kind |-> "bad_json"]}
    \cup [kind : {"ok"}, access_token : Tokens \cup {Undefined},
          has_expires_in : {TRUE}, expires_in : ExpiresIn]
    \cup [kind : {"ok"}, access_token : Tokens \cup {Undefined},
          has_expires_in : {FALSE}, expires_in : {0}]

\* the error getAccessToken throws on answer r, "none" when it returns
ExchangeError(r) ==
    CASE r.kind = "network"    -> "network"
      [] r.kind = "http_error" -> "auth"
      [] r.kind = "bad_json"   -> "parse"
      [] r.kind = "ok" /\ ~r.has_expires_in -> "range"
      [] OTHER -> "none"

\* faulty variant: the lifetime is not added to the current time
ExpiryOfNoNow(r, t) == IF r.has_expires_in THEN r.expires_in ELSE InvalidDate

\* `new Date(Date.now() + (data.expires_in * 1000))`
ExpiryOf(r, t) == IF r.has_expires_in THEN t + r.expires_in ELSE InvalidDate

\* the credential after getAccessToken has processed answer r at time t:
\* memory and amadeus_token are written before toISOString() can throw
\* on an Invalid Date
AfterExchange(c, t, r) ==
    IF r.kind # "ok" THEN c
    ELSE [accessToken |-> r.access_token,
          tokenExpiry |-> ExpiryOf(r, t),
          lsToken     |-> ToStored(r.access_token),
          lsExpiry    |-> IF ExpiryOf(r, t) = InvalidDate THEN c.lsExpiry
                          ELSE ExpiryOf(r, t)]

(* --------------------------- the operations --------------------------- *)
Ops == {"searchFlights", "getPriceHistory", "getAirports"}

\* faulty variant: the catch block of searchFlights returns an empty list
SearchFlightsCatchEmpty(error) == [kind |-> "ok", value |-> <<>>]

\* the catch block of searchFlights: log and rethrow
SearchFlightsCatch(error) == [kind |-> "error", error |-> error]

\* faulty variant: the catch block of getPriceHistory rethrows
GetPriceHistoryCatchRethrow(error) == [kind |-> "error", error |-> error]

\* the catch block of getPriceHistory: log and return []
GetPriceHistoryCatch(error) == [kind |-> "ok", value |-> <<>>]

\* the catch block of getAirports: log and fall back to the catalog
GetAirportsCatch(query, error) == [kind |-> "ok", value |-> MockAirportsOf[query]]

\* what the promise of operation o settles with when `error` is thrown in
\* its try block
Caught(o, a, error) ==
    CASE o = "searchFlights"   -> SearchFlightsCatch(error)
      [] o = "getPriceHistory" -> GetPriceHistoryCatch(error)
      [] o = "getAirports"     -> GetAirportsCatch(a, error)

\* faulty variant: searchFlights appends returnDate whenever one was supplied
RequestOfAnyReturnDate(o, a, bearer) ==
    CASE o = "searchFlights" ->
            [endpoint |-> "flight-offers", bearer |-> ToStored(bearer),
             returnDate |-> a.returnDate]
      [] o = "getPriceHistory" ->
            [endpoint |-> "flight-offers", bearer |-> ToStored(bearer), returnDate |-> ""]
      [] o = "getAirports" ->
            [endpoint |-> "locations", bearer |-> ToStored(bearer), keyword |-> a]

\* the request the operation sends once it holds a token; `Bearer ${token}`
\* turns its value into a string
RequestOf(o, a, bearer) ==
    CASE o = "searchFlights" ->
            [endpoint |-> "flight-offers", bearer |-> ToStored(bearer),
             returnDate |-> IF a.returnDate # "" /\ a.tripType = "roundtrip"
                            THEN a.returnDate ELSE ""]
      [] o = "getPriceHistory" ->
            [endpoint |-> "flight-offers", bearer |-> ToStored(bearer), returnDate |-> ""]
      [] o = "getAirports" ->
            [endpoint |-> "locations", bearer |-> ToStored(bearer), keyword |-> a]

\* answers of a data endpoint that carry no body the code reads
FailedResponses == {[kind |-> "network"], [kind |-> "http_error"], [kind |-> "bad_json"]}

\* a success body: `data` is a list, or is missing
Body(data) == [kind |-> "ok", hasData |-> TRUE, data |-> data]
BodyNoData == [kind |-> "ok", hasData |-> FALSE, data |-> <<>>]

\* faulty variant: an offer without itinerary or segment is left out and the
\* others are returned
RECURSIVE NormalizeWellFormed(_, _)
NormalizeWellFormed(offers, index) ==
    IF offers = <<>> THEN <<>>
    ELSE (IF WellFormed(Head(offers)) THEN <<Normalize(Head(offers), index)>> ELSE <<>>)
         \o NormalizeWellFormed(Tail(offers), index + 1)

SearchFlightsOutcomeSkipMalformed(r) ==
    IF r.kind # "ok" THEN SearchFlightsCatch(r.kind)
    ELSE [kind |-> "ok", value |-> NormalizeWellFormed(r.data, 0)]

\* faulty variant: the first offer of the answer is dropped
SearchFlightsOutcomeSkipFirst(r) ==
    IF r.kind # "ok" THEN SearchFlightsCatch(r.kind)
    ELSE IF \E i \in 1..Len(r.data) : ~WellFormed(r.data[i])
    THEN SearchFlightsCatch("type")
    ELSE [kind |-> "ok",
          value |-> [i \in 1..(Len(r.data) - 1) |-> Normalize(r.data[i + 1], i)]]

\* lines 258-294 of searchFlights on answer r
SearchFlightsOutcome(r) ==
    CASE r.kind = "network"    -> SearchFlightsCatch("network")
      [] r.kind = "http_error" -> SearchFlightsCatch("provider")
      [] r.kind = "bad_json"   -> SearchFlightsCatch("parse")
      [] OTHER ->
            IF \E i \in 1..Len(r.data) : ~WellFormed(r.data[i])
            THEN SearchFlightsCatch("type")
            ELSE [kind |-> "ok",
                  value |-> [i \in 1..Len(r.data) |-> Normalize(r.data[i], i - 1)]]

\* lines 325-370 of getPriceHistory on answer r: only a rejected fetch or
\* an unreadable body throws; a non-success status keeps the fallback price
GetPriceHistoryOutcome(r, clock, stream) ==
    CASE r.kind = "network"  -> GetPriceHistoryCatch("network")
      [] r.kind = "bad_json" -> GetPriceHistoryCatch("parse")
      [] OTHER -> [kind |-> "ok", value |-> Synthesize(r, clock, stream)]

\* lines 396-408 of getAirports on answer r
GetAirportsOutcome(query, r) ==
    CASE r.kind = "network"    -> GetAirportsCatch(query, "network")
      [] r.kind = "http_error" -> GetAirportsCatch(query, "provider")
      [] r.kind = "bad_json"   -> GetAirportsCatch(query, "parse")
      [] OTHER -> [kind |-> "ok", value |-> LiveSuggestions(r.data)]

(* ------------------------- provider answers --------------------------- *)
\* answers of the offers endpoint to getPriceHistory
HistoryResponses ==
    FailedResponses \cup
    {BodyNoData, Body(<<>>), Body(<<OfferDirect>>), Body(<<OfferDirect, OfferRoundTrip>>),
     Body(<<OfferNegative>>), Body(<<OfferNoSegment>>)}

\* answers of the locations endpoint: any run of the pool, or no list
LocationResponses ==
    FailedResponses \cup {BodyNoData} \cup
    {Body(SubSeq(LocationPool, i, j)) :
        i \in 1..Len(LocationPool), j \in 0..Len(LocationPool)}

\* GetPriceHistoryOutcome, tabulated over its inputs
PriceHistoryOf ==
    [x \in HistoryResponses \X Clocks \X RandomStreams |->
        GetPriceHistoryOutcome(x[1], x[2], x[3])] @@ <<>>

(* ------------------------------ actions ------------------------------- *)
\* the App component as mounted: the useState and useRef initial values.
\* searchForm keeps the fields the page reads; searchTimeout is the pending
\* debounce timer, as the sequence of the lookup it will start (empty when
\* none is pending).
Mounted ==
    [searchForm         |-> [origin |-> <<>>, destination |-> <<>>,
                             departureDate |-> ""],
     flights            |-> <<>>,
     isLoading          |-> FALSE,
     hasSearched        |-> FALSE,
     airportSuggestions |-> <<>>,
     showSuggestions    |-> "null",
     searchTimeout      |-> <<>>]

TypeOK ==
    /\ now \in Times
    /\ configured \in BOOLEAN
    /\ pc \in [Calls -> {"idle", "token_wait", "data_wait"}]
    /\ op \in [Calls -> Ops \cup {"none"}]
    /\ event.kind \in {"none", "exchange", "sent", "settled"}

\* A fresh service instance.  localStorage outlives it and is shared with the
\* rest of the origin: either entry may be there or not, and the expiry may
\* be any string, one that parses to an Invalid Date included.
Init ==
    /\ now = 0
    /\ configured \in BOOLEAN
    /\ accessToken = NoToken
    /\ tokenExpiry = NoDate
    /\ lsToken \in Tokens \cup {NoToken}
    /\ lsExpiry \in (0..MaxTtl) \cup {NoDate, InvalidDate}
    /\ pc = [p \in Calls |-> "idle"]
    /\ op = [p \in Calls |-> "none"]
    /\ arg = [p \in Calls |-> NoArg]
    /\ event = NoEvent
    /\ app = Mounted

SetCred(c) ==
    /\ accessToken' = c.accessToken
    /\ tokenExpiry' = c.tokenExpiry
    /\ lsToken' = c.lsToken
    /\ lsExpiry' = c.lsExpiry

\* getAccessToken has returned `bearer` to operation o of call p, which runs
\* on to its own fetch.  `exchanged` tells whether the token endpoint was
\* asked, r is its answer and expiresAt the tokenExpiry the token came with.
Sent(p, o, a, exchanged, r, bearer, expiresAt) ==
    /\ pc' = [pc EXCEPT ![p] = "data_wait"]
    /\ op' = [op EXCEPT ![p] = o]
    /\ arg' = [arg EXCEPT ![p] = a]
    /\ event' = [kind |-> "sent", call |-> p, op |-> o, exchanged |-> exchanged,
                 response |-> r, token |-> bearer, expiresAt |-> expiresAt,
                 request |-> RequestOf(o, a, bearer)]

\* The promise of operation o of call p settles with `outcome`; `stage` is
\* the await it was at ("call" when it never awaited the network) and r the
\* answer that resumed it.
Settled(p, o, a, stage, r, outcome) ==
    /\ pc' = [pc EXCEPT ![p] = "idle"]
    /\ op' = [op EXCEPT ![p] = "none"]
    /\ arg' = [arg EXCEPT ![p] = NoArg]
    /\ event' = [kind |-> "settled", call |-> p, op |-> o, arg |-> a,
                 stage |-> stage, response |-> r, result |-> outcome]

\* getAccessToken of operation o of call p sends its request to the token
\* endpoint and waits for the answer.
Exchange(p, o, a) ==
    /\ pc' = [pc EXCEPT ![p] = "token_wait"]
    /\ op' = [op EXCEPT ![p] = o]
    /\ arg' = [arg EXCEPT ![p] = a]
    /\ event' = [kind |-> "exchange", call |-> p, op |-> o]

\* faulty variant: a failed exchange is tried again
TokenAnswerRetry(p, r) ==
    /\ pc[p] = "token_wait"
    /\ LET c == AfterExchange(Cred, now, r)
       IN  /\ SetCred(c)
           /\ IF ExchangeError(r) = "none"
              THEN Sent(p, op[p], arg[p], TRUE, r, c.accessToken, c.tokenExpiry)
              ELSE Exchange(p, op[p], arg[p])
    /\ UNCHANGED <<now, configured>>

\* Operation o is called with argument a and runs to its first network
\* await: loadStoredToken, then getAccessToken up to its fetch, or, with a
\* cached token, on to the operation's own fetch.
Call(p, o, a) ==
    /\ pc[p] = "idle"
    /\ LET c == loadStoredToken(Cred, now)
       IN  /\ SetCred(c)
           /\ IF HasValidToken(c, now)
              THEN Sent(p, o, a, FALSE, NoResp, c.accessToken, c.tokenExpiry)
              ELSE IF ~configured
              THEN Settled(p, o, a, "call", NoResp, Caught(o, a, "config"))
              ELSE Exchange(p, o, a)
    /\ UNCHANGED <<now, configured>>

SearchFlightsCall(p, params) == Call(p, "searchFlights", params)
GetPriceHistoryCall(p) == Call(p, "getPriceHistory", NoArg)
GetAirportsCall(p, query) == Call(p, "getAirports", query)

\* The token endpoint answers call p with r: the rest of getAccessToken,
\* then, if it returned a token, the operation on to its own fetch.
TokenAnswer(p, r) ==
    /\ pc[p] = "token_wait"
    /\ LET c == AfterExchange(Cred, now, r)
       IN  /\ SetCred(c)
           /\ IF ExchangeError(r) = "none"
              THEN Sent(p, op[p], arg[p], TRUE, r, c.accessToken, c.tokenExpiry)
              ELSE Settled(p, op[p], arg[p], "token", r,
                           Caught(op[p], arg[p], ExchangeError(r)))
    /\ UNCHANGED <<now, configured>>

\* The data endpoint answers call p with r and the operation settles.
DataAnswer(p, r, outcome) ==
    /\ pc[p] = "data_wait"
    /\ Settled(p, op[p], arg[p], "data", r, outcome)
    /\ UNCHANGED <<now, configured, accessToken, tokenExpiry, lsToken, lsExpiry>>

SearchFlightsAnswer(p, r) ==
    /\ op[p] = "searchFlights"
    /\ DataAnswer(p, r, SearchFlightsOutcome(r))

GetPriceHistoryAnswer(p, r, clock, stream) ==
    /\ op[p] = "getPriceHistory"
    /\ DataAnswer(p, r, PriceHistoryOf[<<r, clock, stream>>])

GetAirportsAnswer(p, r) ==
    /\ op[p] = "getAirports"
    /\ DataAnswer(p, r, GetAirportsOutcome(arg[p], r))

\* Time passes.
Tick ==
    /\ now < MaxTime
    /\ now' = now + 1
    /\ event' = NoEvent
    /\ UNCHANGED <<configured, accessToken, tokenExpiry, lsToken, lsExpiry,
                   pc, op, arg>>

(* -------------------- the service under concurrent calls -------------- *)
SearchParams == [tripType : {"oneway", "roundtrip"}, returnDate : {"", "2024-06-09"}]
RoundTrip == [tripType |-> "roundtrip", returnDate |-> "2024-06-09"]

\* the answers, clock and random source the concurrent runs draw from
SearchResponses == FailedResponses \cup {BodyNoData, Body(<<OfferDirect, OfferRoundTrip>>)}
OfferResponses == FailedResponses \cup {BodyNoData, Body(<<OfferDirect>>)}
NearbyResponses == FailedResponses \cup {BodyNoData, Body(SubSeq(LocationPool, 1, 2))}
NoonUtc == [day |-> 160, hour |-> 12, zone |-> "UTC"]

Next ==
    \/ \E p \in Calls : SearchFlightsCall(p, RoundTrip) /\ UNCHANGED app
    \/ \E p \in Calls : GetPriceHistoryCall(p) /\ UNCHANGED app
    \/ \E p \in Calls : GetAirportsCall(p, <<"l", "o", "n">>) /\ UNCHANGED app
    \/ \E p \in Calls, r \in TokenResponses : TokenAnswer(p, r) /\ UNCHANGED app
    \/ \E p \in Calls, r \in SearchResponses : SearchFlightsAnswer(p, r) /\ UNCHANGED app
    \/ \E p \in Calls, r \in OfferResponses : GetPriceHistoryAnswer(p, r, NoonUtc, 0) /\ UNCHANGED app
    \/ \E p \in Calls, r \in NearbyResponses : GetAirportsAnswer(p, r) /\ UNCHANGED app
    \/ Tick /\ UNCHANGED app

Spec == Init /\ [][Next]_vars

(* ------------------ getPriceHistory, one call at a time --------------- *)
NextHistory ==
    \/ GetPriceHistoryCall("c1") /\ UNCHANGED app
    \/ \E r \in TokenResponses : TokenAnswer("c1", r) /\ UNCHANGED app
    \/ \E r \in HistoryResponses, clock \in Clocks, stream \in RandomStreams :
          GetPriceHistoryAnswer("c1", r, clock, stream) /\ UNCHANGED app
    \/ Tick /\ UNCHANGED app

SpecHistory == Init /\ [][NextHistory]_vars

(* -------------------- getAirports, one call at a time ----------------- *)
NextAirports ==
    \/ \E query \in Keywords : GetAirportsCall("c1", query) /\ UNCHANGED app
    \/ \E r \in TokenResponses : TokenAnswer("c1", r) /\ UNCHANGED app
    \/ \E r \in LocationResponses : GetAirportsAnswer("c1", r) /\ UNCHANGED app
    \/ Tick /\ UNCHANGED app

SpecAirports == Init /\ [][NextAirports]_vars

(* -------------------- searchFlights, one call at a time --------------- *)
\* the offers an answer is made of, and the answers: no answer, no list, or
\* any list of up to MaxOffers offers
OfferPool ==
    {OfferDirect, OfferRoundTrip, OfferOvernight, OfferNoItinerary, OfferNoSegment,
     OfferNegative}
OfferLists == UNION {[1..n -> OfferPool] : n \in 0..MaxOffers}
SearchOfferResponses == FailedResponses \cup {BodyNoData} \cup {Body(l) : l \in OfferLists}

\* SearchFlightsOutcome, tabulated over the answers
SearchFlightsOf == [r \in SearchOfferResponses |-> SearchFlightsOutcome(r)] @@ <<>>

NextSearch ==
    \/ \E params \in SearchParams : SearchFlightsCall("c1", params) /\ UNCHANGED app
    \/ \E r \in TokenResponses : TokenAnswer("c1", r) /\ UNCHANGED app
    \/ \E r \in SearchOfferResponses :
          /\ op["c1"] = "searchFlights"
          /\ DataAnswer("c1", r, SearchFlightsOf[r])
          /\ UNCHANGED app
    \/ Tick /\ UNCHANGED app

SpecSearch == Init /\ [][NextSearch]_vars

(* ------------- the service next to another tab of the page ----------- *)
\* localStorage belongs to the origin: a second tab running the same page
\* has its own FlightApiService and, when its exchange succeeds, writes both
\* entries (lines 171-172 run by that instance).
OtherTabExchange(t, ttl) ==
    /\ lsToken' = t
    /\ lsExpiry' = now + ttl
    /\ event' = NoEvent
    /\ UNCHANGED <<now, configured, accessToken, tokenExpiry, pc, op, arg>>

NextTabs ==
    \/ \E p \in Calls : SearchFlightsCall(p, RoundTrip) /\ UNCHANGED app
    \/ \E p \in Calls, r \in TokenResponses : TokenAnswer(p, r) /\ UNCHANGED app
    \/ \E p \in Calls, r \in SearchResponses : SearchFlightsAnswer(p, r) /\ UNCHANGED app
    \/ \E t \in Tokens, ttl \in ExpiresIn : OtherTabExchange(t, ttl) /\ UNCHANGED app
    \/ Tick /\ UNCHANGED app

SpecTabs == Init /\ [][NextTabs]_vars

(* --------------------------- the App component ------------------------ *)
\* The page drives the service: the search button calls searchFlights and
\* the debounce timer of an airport input calls getAirports.  A call takes
\* one of the slots of Calls, so at most two calls are in flight at a time.

\* the two inputs handleAirportInput serves
AirportFields == {"origin", "destination"}

\* what the user types into an airport input.  The destination is only
\* typed up to one character, so every lookup is one of the origin input.
TypedValues ==
    [origin      |-> {<<>>, <<"s">>, <<"l", "o", "n">>},
     destination |-> {<<>>, <<"x">>}]

\* what the user sets the departure date input to
DepartureDates == {"", "2024-06-01"}

\* what the endpoints answer the calls of the page with
AppTokenResponses ==
    {[kind |-> "network"]}
    \cup [kind : {"ok"}, access_token : {"t1"},
          has_expires_in : {TRUE}, expires_in : ExpiresIn]
AppSearchResponses == {[kind |-> "network"], Body(<<OfferDirect, OfferRoundTrip>>)}
AppNearbyResponses == {[kind |-> "network"], Body(SubSeq(LocationPool, 1, 2))}

\* searchTimeoutRef with no timer pending
NoTimeout == <<>>

\* a suggestion list needs this many characters
MinKeyword == 2

\* faulty variant: a failed search leaves the flights as they were
HandleSearchResumedKeepsFlights(a, outcome) ==
    [a EXCEPT !.flights = IF outcome.kind = "ok" THEN outcome.value ELSE @,
              !.isLoading = FALSE]

\* handleSearch from its await on: setFlights(results), or setFlights([])
\* in the catch, then setIsLoading(false) in the finally
HandleSearchResumed(a, outcome) ==
    [a EXCEPT !.flights = IF outcome.kind = "ok" THEN outcome.value ELSE <<>>,
              !.isLoading = FALSE]

\* debouncedSearchAirports from its await on: the suggestions are stored
\* and the list of the field is shown, whatever the input holds by then
DebouncedSearchAirportsResumed(a, outcome) ==
    IF outcome.kind = "ok"
    THEN [a EXCEPT !.airportSuggestions = outcome.value,
                   !.showSuggestions = "origin"]
    ELSE a

\* The handler that awaited the promise settled by this step, if any, runs
\* on before anything else happens to the page.
Resumed(a) ==
    IF event'.kind # "settled" THEN a
    ELSE CASE event'.op = "searchFlights" ->
                  HandleSearchResumed(a, event'.result)
           [] event'.op = "getAirports" ->
                  DebouncedSearchAirportsResumed(a, event'.result)
           [] OTHER -> a

\* the `disabled` attribute of the search button, also the guard that opens
\* handleSearch
SearchDisabled(a) ==
    \/ a.isLoading
    \/ a.searchForm.origin = <<>>
    \/ a.searchForm.destination = <<>>
    \/ a.searchForm.departureDate = ""

\* The search button is clicked: handleSearch up to its await, and the rest
\* of it when searchFlights rejects without waiting for the network.
HandleSearch(p) ==
    /\ ~SearchDisabled(app)
    /\ SearchFlightsCall(p, RoundTrip)
    /\ app' = Resumed([app EXCEPT !.isLoading = TRUE, !.hasSearched = TRUE])

\* The user edits an airport input.
HandleAirportInput(field, value) ==
    /\ app' = IF Len(value) < MinKeyword
              THEN [app EXCEPT !.searchForm[field] = value,
                               !.searchTimeout = NoTimeout,
                               !.showSuggestions = "null",
                               !.airportSuggestions = <<>>]
              ELSE [app EXCEPT !.searchForm[field] = value,
                               !.searchTimeout =
                                   <<[field |-> field, value |-> value]>>]
    /\ event' = NoEvent
    /\ UNCHANGED <<now, configured, accessToken, tokenExpiry, lsToken,
                   lsExpiry, pc, op, arg>>

\* The debounce timer fires: debouncedSearchAirports up to its await, and
\* the rest of it when getAirports answers without waiting for the network.
DebounceTimeout(p) ==
    /\ app.searchTimeout # NoTimeout
    /\ GetAirportsCall(p, Head(app.searchTimeout).value)
    /\ app' = Resumed([app EXCEPT !.searchTimeout = NoTimeout])

\* The user picks the i-th suggestion of the list on display.
SelectAirport(field, i) ==
    /\ app.showSuggestions = field
    /\ i \in 1..Len(app.airportSuggestions)
    /\ app' = [app EXCEPT !.searchForm[field] = app.airportSuggestions[i].code,
                          !.showSuggestions = "null"]
    /\ event' = NoEvent
    /\ UNCHANGED <<now, configured, accessToken, tokenExpiry, lsToken,
                   lsExpiry, pc, op, arg>>

\* An airport input gets the focus.
Focus(field) ==
    /\ Len(app.searchForm[field]) >= MinKeyword
    /\ app' = [app EXCEPT !.showSuggestions = field]
    /\ event' = NoEvent
    /\ UNCHANGED <<now, configured, accessToken, tokenExpiry, lsToken,
                   lsExpiry, pc, op, arg>>

\* The timer an airport input started when it lost the focus fires.
BlurTimeout ==
    /\ app' = [app EXCEPT !.showSuggestions = "null"]
    /\ event' = NoEvent
    /\ UNCHANGED <<now, configured, accessToken, tokenExpiry, lsToken,
                   lsExpiry, pc, op, arg>>

\* The user sets the departure date.
SetDepartureDate(date) ==
    /\ app' = [app EXCEPT !.searchForm.departureDate = date]
    /\ event' = NoEvent
    /\ UNCHANGED <<now, configured, accessToken, tokenExpiry, lsToken,
                   lsExpiry, pc, op, arg>>

NextApp ==
    \/ \E p \in Calls : HandleSearch(p)
    \/ \E field \in AirportFields : \E value \in TypedValues[field] :
          HandleAirportInput(field, value)
    \/ \E p \in Calls : DebounceTimeout(p)
    \/ \E field \in AirportFields, i \in 1..MaxSuggestions :
          SelectAirport(field, i)
    \/ \E field \in AirportFields : Focus(field)
    \/ BlurTimeout
    \/ \E date \in DepartureDates : SetDepartureDate(date)
    \/ \E p \in Calls, r \in AppTokenResponses :
          TokenAnswer(p, r) /\ app' = Resumed(app)
    \/ \E p \in Calls, r \in AppSearchResponses :
          SearchFlightsAnswer(p, r) /\ app' = Resumed(app)
    \/ \E p \in Calls, r \in AppNearbyResponses :
          GetAirportsAnswer(p, r) /\ app' = Resumed(app)
    \/ Tick /\ UNCHANGED app

SpecApp == Init /\ [][NextApp]_vars

(* ------------------------------ properties ---------------------------- *)
\* the last step settled the promise of operation o
SettledOp(o) == event.kind = "settled" /\ event.op = o

\* s contains q as a substring when case is ignored
ContainsCI(s, q) ==
    \E k \in 0..(Len(s) - Len(q)) :
        \A j \in 1..Len(q) : LowerChar(s[k + j]) = LowerChar(q[j])

\* suggestion a matches keyword q in its code, its city or its name
MatchesKeyword(a, q) ==
    ContainsCI(a.code, q) \/ ContainsCI(a.city, q) \/ ContainsCI(a.name, q)

\* the call that settled never got a usable answer from the provider: the
\* configuration was missing, the exchange failed, or the data request failed
LivePathFailed ==
    \/ event.stage \in {"call", "token"}
    \/ event.stage = "data" /\ event.response.kind # "ok"

\* C1: every token that token acquisition returns has an expiresAt strictly
\* later than the time at which it is returned, a token returned straight
\* from a just-completed exchange included.
C1_ReturnedTokenUnexpired ==
    event.kind = "sent" => event.expiresAt > now

C1_Witness ==
    event.kind = "sent" /\ event.exchanged /\ now > 0

\* C2: a token acquisition that starts while an unexpired credential is held,
\* in memory or in localStorage, sends no request to the token endpoint.
CredentialHeld ==
    \/ accessToken \notin {NoToken, Undefined} /\ tokenExpiry > now
    \/ lsToken # NoToken /\ lsExpiry > now

C2_NoExchangeWhileHeld ==
    [][\A p \in Calls :
          (pc[p] = "idle" /\ CredentialHeld) => pc'[p] # "token_wait"]_vars

C2_Witness ==
    event.kind = "sent" /\ ~event.exchanged /\ now > 0

\* C3: searchFlights fails, and returns no offer list, when the token
\* endpoint rejects the exchange, when the offers endpoint answers with a
\* non-success status, and when the transport fails.
C3_SearchFailuresPropagate ==
    (/\ SettledOp("searchFlights")
     /\ event.stage \in {"token", "data"}
     /\ event.response.kind \in {"http_error", "network"})
    => event.result.kind = "error"

C3_Witness ==
    /\ SettledOp("searchFlights")
    /\ event.stage = "token"
    /\ event.response.kind = "http_error"
    /\ event.result.kind = "error"

\* C4: every call of getPriceHistory, whatever the outcome of token
\* acquisition and of the offers request, returns exactly 31 points in
\* strictly ascending date order, no date twice.
C4_AlwaysThirtyOneAscending ==
    SettledOp("getPriceHistory") =>
        /\ event.result.kind = "ok"
        /\ Len(event.result.value) = 31
        /\ \A i \in 1..30 :
              LocaleCompare(event.result.value[i].date,
                            event.result.value[i + 1].date) < 0

\* C5: when the offers endpoint is unreachable during getPriceHistory, the
\* result still holds 31 points, each computed from the fallback price 250.
C5_UnreachableGivesFallbackSeries ==
    (/\ SettledOp("getPriceHistory")
     /\ event.stage = "data"
     /\ event.response.kind = "network")
    => /\ event.result.kind = "ok"
       /\ Len(event.result.value) = 31
       /\ \E clock \in Clocks, stream \in RandomStreams :
             event.result.value = Synthesize(BodyNoData, clock, stream)

\* C6: getPriceHistory never propagates an error: it completes with a
\* sequence, of length 0 or of length 31.
C6_HistoryNeverFails ==
    SettledOp("getPriceHistory") =>
        /\ event.result.kind = "ok"
        /\ Len(event.result.value) \in {0, 31}

C6_Witness ==
    /\ SettledOp("getPriceHistory")
    /\ event.stage = "token"
    /\ event.result.kind = "ok"
    /\ event.result.value = <<>>

\* C7: each point getPriceHistory returns has price >= round(0.6 * basePrice),
\* basePrice being the base price of that same call.
C7_PriceAtLeastSixtyPercent ==
    (SettledOp("getPriceHistory") /\ event.stage = "data"
        /\ event.result.kind = "ok") =>
        LET base == BasePrice(event.response)
        IN  \A i \in 1..Len(event.result.value) :
               event.result.value[i].price
                   >= (12 * base.n + 10 * base.d) \div (20 * base.d)

C7_Witness ==
    /\ SettledOp("getPriceHistory")
    /\ event.stage = "data"
    /\ event.response.kind = "ok"
    /\ Len(event.result.value) = 31
    /\ BasePrice(event.response).n < 0
    /\ \E i \in 1..31 :
          event.result.value[i].price
              = (12 * BasePrice(event.response).n + 10 * BasePrice(event.response).d)
                    \div (20 * BasePrice(event.response).d)

\* C8: getAirports returns at most 5 suggestions, for every keyword and
\* every behaviour of the provider.
C8_AtMostFiveSuggestions ==
    SettledOp("getAirports") =>
        event.result.kind = "ok" /\ Len(event.result.value) <= 5

C8_Witness ==
    /\ SettledOp("getAirports")
    /\ event.stage = "data"
    /\ event.response.kind = "ok"
    /\ Len(event.response.data) > 5
    /\ Len(event.result.value) = 5

\* C9 as claimed: every suggestion getAirports returns matches the keyword,
\* whether it comes from the live answer or from the fallback catalog.
C9_EverySuggestionMatches ==
    SettledOp("getAirports") =>
        \A i \in 1..Len(event.result.value) :
            MatchesKeyword(event.result.value[i], event.arg)

\* C9 as amended: every suggestion getAirports returns from the fallback
\* catalog matches the keyword, ignoring case, in its code, city or name;
\* the suggestions of a live answer are the provider's first five locations
\* as it sent them, whether they match or not.
C9_FallbackSuggestionsMatch ==
    SettledOp("getAirports") =>
        IF LivePathFailed
        THEN \A i \in 1..Len(event.result.value) :
                MatchesKeyword(event.result.value[i], event.arg)
        ELSE /\ Len(event.result.value) <= Len(event.response.data)
             /\ Len(event.result.value) = 5 \/
                    Len(event.result.value) = Len(event.response.data)
             /\ \A i \in 1..Len(event.result.value) :
                    /\ event.result.value[i].code = event.response.data[i].iataCode
                    /\ event.result.value[i].name = event.response.data[i].name

C9_Witness ==
    /\ SettledOp("getAirports")
    /\ LivePathFailed
    /\ Len(event.result.value) > 1
    /\ Len(event.arg) > 0

\* C10: any failure in the live path of getAirports makes the call return
\* the first 5 catalog entries that match the keyword, in catalog order; the
\* call does not fail.
C10_FailureGivesCatalogPrefix ==
    (SettledOp("getAirports") /\ LivePathFailed) =>
        LET matching == {i \in 1..Len(mockAirports) :
                            MatchesKeyword(mockAirports[i], event.arg)}
            count    == IF Cardinality(matching) < 5 THEN Cardinality(matching) ELSE 5
        IN  /\ event.result.kind = "ok"
            /\ Len(event.result.value) = count
            /\ \A j \in 1..count :
                  \E i \in matching :
                      /\ Cardinality({m \in matching : m < i}) = j - 1
                      /\ event.result.value[j] = mockAirports[i]

C10_Witness ==
    /\ SettledOp("getAirports")
    /\ event.stage = "data"
    /\ event.response.kind = "http_error"
    /\ Len(event.result.value) = 5
    /\ event.result.value[1] # mockAirports[1]

\* C11: getAirports lets failures (authentication, provider non-success,
\* network) reach its caller as failures, as searchFlights does, and does not
\* turn them into a returned result.
C11_AirportFailuresPropagate ==
    (/\ SettledOp("getAirports")
     /\ event.stage \in {"token", "data"}
     /\ event.response.kind \in {"http_error", "network"})
    => event.result.kind = "error"

\* the offers request of the call that settled succeeded
OffersRequestSucceeded ==
    /\ SettledOp("searchFlights")
    /\ event.stage = "data"
    /\ event.response.kind = "ok"

\* the offer has a first itinerary with a segment in it
HasFirstSegment(offer) ==
    /\ Len(offer.itineraries) > 0
    /\ Len(offer.itineraries[1].segments) > 0

\* the result of the call that settled is a sequence holding one FlightOffer
\* per offer of the answer, in the order of the answer
OneFlightPerOffer ==
    /\ event.result.kind = "ok"
    /\ Len(event.result.value) = Len(event.response.data)
    /\ \A i \in 1..Len(event.response.data) :
          /\ event.result.value[i].price = event.response.data[i].price.total
          /\ event.result.value[i].currency = event.response.data[i].price.currency
          /\ event.response.data[i].id # <<>> =>
                event.result.value[i].id = event.response.data[i].id

\* C12 as claimed: when the offers request succeeds, searchFlights returns a
\* sequence with exactly one FlightOffer per provider offer, in the provider's
\* order, and the empty sequence when the answer has no list or an empty one.
C12_OneFlightPerOffer ==
    OffersRequestSucceeded => OneFlightPerOffer

\* C12 as amended: the same, for answers in which every offer has a first
\* itinerary with at least one segment.
C12_OneFlightPerWellFormedOffer ==
    (/\ OffersRequestSucceeded
     /\ \A i \in 1..Len(event.response.data) :
           HasFirstSegment(event.response.data[i]))
    => OneFlightPerOffer

C12_Witness ==
    /\ OffersRequestSucceeded
    /\ Len(event.response.data) = 2
    /\ event.response.data[1] # event.response.data[2]
    /\ event.response.data[1].id = <<>>
    /\ event.result.kind = "ok"
    /\ Len(event.result.value) = 2

\* C13: for every provider offer whose first itinerary has N >= 1 segments,
\* the normalized FlightOffer has stops = N - 1, whatever the number of
\* segments of the later itineraries.
C13_StopsOfFirstItinerary ==
    (OffersRequestSucceeded /\ event.result.kind = "ok") =>
        \A i \in 1..Len(event.result.value) :
            event.result.value[i].stops
                = Len(event.response.data[i].itineraries[1].segments) - 1

C13_Witness ==
    /\ OffersRequestSucceeded
    /\ event.result.kind = "ok"
    /\ \E i \in 1..Len(event.result.value) :
          LET itineraries == event.response.data[i].itineraries
          IN  /\ Len(itineraries) > 1
              /\ Len(itineraries[2].segments) # Len(itineraries[1].segments)
              /\ event.result.value[i].stops = 1
    /\ \E i \in 1..Len(event.result.value) : event.result.value[i].stops = 0

\* C14: when the client identifier or the client secret is missing, no
\* provider call goes through: every searchFlights call fails with the
\* configuration error and no request reaches a data endpoint, in every
\* credential state, an unexpired token in persistent storage included.
C14_NoProviderCallWithoutConfiguration ==
    ~configured =>
        /\ \A p \in Calls : pc[p] # "data_wait"
        /\ event.kind # "sent"
        /\ SettledOp("searchFlights") =>
              event.result = [kind |-> "error", error |-> "config"]

\* an unexpired credential is in memory
MemoryHeld == accessToken \notin {NoToken, Undefined} /\ tokenExpiry > now

\* C15: if an unexpired credential is in memory when token acquisition
\* starts, the token returned is that in-memory token, and the persisted
\* credential is not adopted over it.
C15_MemoryCredentialWins ==
    [][\A p \in Calls :
          (pc[p] = "idle" /\ pc'[p] # "idle" /\ MemoryHeld) =>
              /\ event'.kind = "sent"
              /\ event'.token = accessToken
              /\ accessToken' = accessToken
              /\ tokenExpiry' = tokenExpiry]_vars

\* C16: a token exchange that fails (missing configuration, non-success
\* status, success body without access_token or without expires_in) makes
\* token acquisition fail: no token value is returned to the caller.
C16_FailedExchangeReturnsNoToken ==
    (event.kind = "sent" /\ event.exchanged) =>
        /\ configured
        /\ event.response.kind = "ok"
        /\ event.response.access_token # Undefined
        /\ event.response.has_expires_in

\* the last step returned a token out of an exchange whose answer carried
\* both access_token and expires_in
ExchangeSucceeded ==
    /\ event.kind = "sent"
    /\ event.exchanged
    /\ event.response.kind = "ok"
    /\ event.response.access_token \in Tokens
    /\ event.response.has_expires_in

\* C17: when a token exchange succeeds, the in-memory credential and the
\* persisted entries are set in the same step to the same token and the same
\* expiresAt, which is the time the response is processed plus expires_in.
C17_ExchangeSetsMemoryAndStorage ==
    ExchangeSucceeded =>
        /\ accessToken = event.response.access_token
        /\ lsToken = event.response.access_token
        /\ event.token = event.response.access_token
        /\ tokenExpiry = now + event.response.expires_in
        /\ lsExpiry = now + event.response.expires_in

C17_Witness ==
    /\ ExchangeSucceeded
    /\ now > 0
    /\ event.response.expires_in > 1
    /\ lsExpiry = tokenExpiry
    /\ \E p \in Calls : pc[p] = "token_wait"

\* the two persisted entries are both present or both absent
StoredPairWhole == (lsToken = NoToken) <=> (lsExpiry = NoDate)

\* C18: the two persisted entries (token, token_expiry) are either both
\* present or both absent in every state the service reaches: no step of the
\* service leaves one of them without the other.
C18_StoredEntriesPaired ==
    [][StoredPairWhole => StoredPairWhole']_vars

\* the state of a credential (token, expiresAt) at time t; there is no
\* credential without a token or without an instant it expires at
CredentialState(token, expiresAt, t) ==
    IF token \in {NoToken, Undefined} \/ expiresAt \in {NoDate, InvalidDate}
    THEN "Absent"
    ELSE IF expiresAt > t THEN "Valid"
    ELSE "Expired"

\* the transitions of the credential state machine
CredentialMoves(from, to) ==
    \/ from = to
    \/ from = "Absent" /\ to = "Valid"
    \/ from = "Valid" /\ to = "Expired"
    \/ from = "Expired" /\ to = "Absent"

\* C19: the credential, in memory and persisted, moves only along
\* Absent -> Valid -> Expired -> Absent -> Valid: under any interleaving of
\* calls an expired credential is evicted to Absent before a new one becomes
\* Valid, and no other transition occurs.
C19_CredentialStateMachine ==
    [][/\ CredentialMoves(CredentialState(accessToken, tokenExpiry, now),
                          CredentialState(accessToken', tokenExpiry', now'))
       /\ CredentialMoves(CredentialState(lsToken, lsExpiry, now),
                          CredentialState(lsToken', lsExpiry', now'))]_vars

\* no unexpired credential is available, in memory or in localStorage
NoCredentialAvailable ==
    /\ ~MemoryHeld
    /\ ~(lsToken # NoToken /\ lsExpiry > now)

\* C20: token exchanges can be in flight together: when calls overlap while
\* no unexpired credential is available, each of them sends its own request
\* to the token endpoint, whether or not another exchange is already in
\* flight.
C20_OverlappingCallsEachExchange ==
    [][\A p \in Calls :
          (/\ pc[p] = "idle"
           /\ pc'[p] # "idle"
           /\ configured
           /\ NoCredentialAvailable)
          => pc'[p] = "token_wait"]_vars

C20_Witness ==
    /\ pc["c1"] = "token_wait"
    /\ pc["c2"] = "token_wait"
    /\ op["c1"] = "searchFlights"
    /\ op["c2"] = "getPriceHistory"

\* C21: a single token acquisition sends at most one request to the token
\* endpoint: a request is sent only by a call that is starting, and a call
\* whose exchange has failed settles at once without sending another.
C21_OneExchangePerAcquisition ==
    [][/\ event'.kind = "exchange" => pc[event'.call] = "idle"
       /\ \A p \in Calls :
             (pc[p] = "token_wait" /\ pc'[p] # "token_wait") =>
                \/ pc'[p] = "data_wait" /\ event'.kind = "sent" /\ event'.exchanged
                \/ /\ pc'[p] = "idle"
                   /\ event'.kind = "settled"
                   /\ event'.stage = "token"]_vars

C21_Witness ==
    /\ event.kind = "settled"
    /\ event.stage = "token"
    /\ event.response.kind = "http_error"
    /\ pc[event.call] = "idle"
    /\ \E p \in Calls : pc[p] = "token_wait"

\* C22: in each operation no request is sent to a data endpoint unless the
\* token acquisition of that same call has completed with a token, the
\* bearer of the request is exactly that token, and each call sends at most
\* one data request.
C22_DataRequestCarriesAcquiredToken ==
    [][\A p \in Calls :
          /\ (pc'[p] = "data_wait" /\ pc[p] # "data_wait") =>
                /\ event'.kind = "sent"
                /\ event'.call = p
                /\ event'.token \notin {NoToken, Undefined}
                /\ event'.token = accessToken'
                /\ event'.request.bearer = event'.token
          /\ pc[p] = "data_wait" => pc'[p] \in {"data_wait", "idle"}]_vars

\* the last step sent the offers request of a searchFlights call
SearchRequestSent == event.kind = "sent" /\ event.op = "searchFlights"

\* C23: the offers query of searchFlights has a returnDate parameter if and
\* only if tripType is roundtrip and a non-empty returnDate was supplied; a
\* one-way search never sends returnDate, even when the query carries one.
C23_ReturnDateOnlyForRoundTrip ==
    SearchRequestSent =>
        LET params == arg[event.call]
        IN  /\ event.request.returnDate # "" <=>
                  (params.tripType = "roundtrip" /\ params.returnDate # "")
            /\ event.request.returnDate # "" =>
                  event.request.returnDate = params.returnDate

C23_Witness ==
    /\ SearchRequestSent
    /\ arg[event.call].tripType = "oneway"
    /\ arg[event.call].returnDate # ""
    /\ event.request.returnDate = ""

\* the date and the hour:minute of a timestamp "YYYY-MM-DDTHH:MM:SS"
DatePart(at) == SubSeq(at, 1, 10)
TimePart(at) == SubSeq(at, 12, 16)

\* flight is made of the first and the last segment of itinerary
TakenFrom(flight, itinerary) ==
    LET first == itinerary.segments[1]
        last  == itinerary.segments[Len(itinerary.segments)]
    IN  /\ flight.airline = first.carrierCode
        /\ flight.flightNumber = <<first.carrierCode, " ", first.number>>
        /\ flight.aircraft = first.aircraft
        /\ flight.departure.airport = first.departure.iataCode
        /\ flight.departure.date = DatePart(first.departure.at)
        /\ flight.departure.time = TimePart(first.departure.at)
        /\ flight.arrival.airport = last.arrival.iataCode
        /\ flight.arrival.date = DatePart(last.arrival.at)
        /\ flight.arrival.time = TimePart(last.arrival.at)

\* C24: for every offer with an itinerary and a segment in it, the FlightOffer
\* takes departure airport/time/date, airline, flight number and aircraft
\* from the first segment of the first itinerary and arrival
\* airport/time/date from its last segment; no field depends on a later
\* itinerary.
C24_FieldsOfFirstItinerary ==
    (OffersRequestSucceeded /\ event.result.kind = "ok") =>
        \A i \in 1..Len(event.result.value) :
            LET offer == event.response.data[i]
            IN  /\ TakenFrom(event.result.value[i], offer.itineraries[1])
                /\ event.result.value[i]
                      = Normalize([offer EXCEPT !.itineraries = <<offer.itineraries[1]>>],
                                  i - 1)

C24_Witness ==
    /\ OffersRequestSucceeded
    /\ event.result.kind = "ok"
    /\ \E i \in 1..Len(event.result.value) :
          /\ Len(event.response.data[i].itineraries) = 2
          /\ Len(event.response.data[i].itineraries[1].segments) = 3
          /\ event.result.value[i].departure.airport = "SYD"
          /\ event.result.value[i].arrival.airport = "LHR"
          /\ event.result.value[i].arrival.time = <<"1", "4", ":", "4", "0">>

\* duration d without its leading "PT", when it has one
WithoutLeadingDesignator(d) ==
    IF Len(d) >= 2 /\ d[1] = "P" /\ d[2] = "T" THEN SubSeq(d, 3, Len(d)) ELSE d

\* duration d without the designator it starts with: "PT" before a time
\* part, "P" before a day part
WithoutPeriodDesignator(d) ==
    IF Len(d) >= 2 /\ d[1] = "P" /\ d[2] = "T" THEN SubSeq(d, 3, Len(d))
    ELSE IF Len(d) >= 1 /\ d[1] = "P" THEN SubSeq(d, 2, Len(d))
    ELSE d

\* the duration of flight is the lowercased string expected
DurationIs(flight, expected) ==
    /\ Len(flight.duration) = Len(expected)
    /\ \A j \in 1..Len(expected) : flight.duration[j] = LowerChar(expected[j])

\* C25 as claimed: for every provider duration string the normalized
\* duration is that string with its leading period designator removed and
\* all letters lowercased ("PT2H30M" gives "2h30m").
C25_DesignatorAlwaysRemoved ==
    (OffersRequestSucceeded /\ event.result.kind = "ok") =>
        \A i \in 1..Len(event.result.value) :
            DurationIs(event.result.value[i],
                       WithoutPeriodDesignator(
                           event.response.data[i].itineraries[1].duration))

\* C25 as amended: the normalized duration is the provider's string without
\* its leading "PT" and lowercased; a string that does not start with "PT",
\* as one with a day part does not, keeps every character and is only
\* lowercased.
C25_DurationStrippedAndLowercased ==
    (OffersRequestSucceeded /\ event.result.kind = "ok") =>
        \A i \in 1..Len(event.result.value) :
            DurationIs(event.result.value[i],
                       WithoutLeadingDesignator(
                           event.response.data[i].itineraries[1].duration))

C25_Witness ==
    /\ OffersRequestSucceeded
    /\ event.result.kind = "ok"
    /\ \E i \in 1..Len(event.result.value) :
          /\ event.response.data[i].itineraries[1].duration
                = <<"P", "T", "2", "H", "3", "0", "M">>
          /\ event.result.value[i].duration = <<"2", "h", "3", "0", "m">>
    /\ \E i \in 1..Len(event.result.value) :
          event.result.value[i].duration
              = <<"p", "1", "d", "t", "2", "h", "3", "0", "m">>

\* the offers request of the getPriceHistory call that settled was answered
\* with a status and a readable body
HistoryRequestAnswered ==
    /\ SettledOp("getPriceHistory")
    /\ event.stage = "data"
    /\ event.response.kind \in {"ok", "http_error"}

\* the sum of the totals of offers
RECURSIVE TotalOf(_)
TotalOf(offers) ==
    IF offers = <<>> THEN 0 ELSE Head(offers).price.total + TotalOf(Tail(offers))

\* the base price C26 states for answer r, as a fraction n / d
StatedBasePrice(r) ==
    IF r.kind = "ok" /\ Len(r.data) >= 1
    THEN [n |-> TotalOf(r.data), d |-> Len(r.data)]
    ELSE [n |-> 250, d |-> 1]

\* the series of every base price, clock and random source
SeriesOf ==
    [x \in {StatedBasePrice(r) : r \in HistoryResponses} \X Clocks \X RandomStreams |->
        SortByDate(Generated(x[1], x[2], x[3]))] @@ <<>>

\* C26: in getPriceHistory basePrice is the arithmetic mean of the totals of
\* all offers returned when the offers request succeeds with at least one
\* offer, and 250 when it returns a non-success status or a success without
\* offers: the series returned is the series of that base price.
C26_BasePriceIsMeanOrFallback ==
    HistoryRequestAnswered =>
        \E clock \in Clocks, stream \in RandomStreams :
            event.result.value
                = SeriesOf[<<StatedBasePrice(event.response), clock, stream>>]

C26_Witness ==
    /\ HistoryRequestAnswered
    /\ event.response.kind = "ok"
    /\ Len(event.response.data) = 2
    /\ event.response.data[1].price.total # event.response.data[2].price.total
    /\ Len(event.result.value) = 31

\* the urgency factor C27 states for the point k days after the oldest day
\* of the window, in tenths
StatedUrgency(k) == IF k < 7 THEN 12 ELSE IF k < 14 THEN 11 ELSE 10

\* the price of the point k days after the oldest day, computed with the
\* stated urgency factor
StatedPrice(base, clock, stream, k) ==
    LET n == clock.day - (30 - k)
        u == Draw(stream, k + 1)
        product == Round(base.n * VariationNum(u) * WeekendMultiplier(n)
                             * SeasonalMultiplier(n) * StatedUrgency(k),
                         base.d * VariationDen * 10 * 20 * 10)
        minimum == Round(base.n * 6, base.d * 10)
    IN  IF product >= minimum THEN product ELSE minimum

\* the stated prices of every answer, clock and random source
StatedPricesOf ==
    [x \in {BasePrice(r) : r \in HistoryResponses} \X Clocks \X RandomStreams |->
        [k \in 0..30 |-> StatedPrice(x[1], x[2], x[3], k)]] @@ <<>>

CredentialUnchanged ==
    UNCHANGED <<accessToken, tokenExpiry, lsToken, lsExpiry>>

\* a load adopts the persisted credential, which is unexpired: memory is
\* written, storage is left alone
LoadAdopts ==
    /\ lsToken # NoToken /\ lsExpiry > now
    /\ accessToken' = lsToken /\ tokenExpiry' = lsExpiry
    /\ UNCHANGED <<lsToken, lsExpiry>>

\* a load evicts the persisted credential, which is expired: storage is
\* cleared, memory is left alone
LoadEvicts ==
    /\ lsToken # NoToken /\ lsExpiry # NoDate /\ ~(lsExpiry > now)
    /\ lsToken' = NoToken /\ lsExpiry' = NoDate
    /\ UNCHANGED <<accessToken, tokenExpiry>>

\* an exchange writes the same credential to memory and to storage
ExchangeWritesBoth ==
    /\ accessToken' = event'.token
    /\ lsToken' = event'.request.bearer
    /\ tokenExpiry' = lsExpiry'

\* C28: the in-memory credential and the persisted entries change only in a
\* successful exchange (both written), in a load that adopts an unexpired
\* persisted credential (memory written) and in a load that evicts an
\* expired one (storage cleared); a failed exchange and every data-endpoint
\* request leave both unchanged.
C28_CredentialFrame ==
    [][CASE event'.kind = "sent" /\ event'.exchanged -> ExchangeWritesBoth
         [] event'.kind = "sent" /\ ~event'.exchanged ->
                CredentialUnchanged \/ LoadAdopts
         [] event'.kind = "exchange" -> CredentialUnchanged \/ LoadEvicts
         [] event'.kind = "settled" /\ event'.stage = "call" ->
                CredentialUnchanged \/ LoadEvicts
         [] OTHER -> CredentialUnchanged]_vars

\* C29: the 60% floor of getPriceHistory never changes a price: for every
\* non-negative basePrice, every day of the window and every random draw in
\* [-0.20, +0.20), the rounded product of basePrice and the four factors is
\* at least round(0.8 * basePrice), which is at least round(0.6 * basePrice).
C29_FloorNeverBinds ==
    (HistoryRequestAnswered /\ BasePrice(event.response).n >= 0) =>
        LET base == BasePrice(event.response)
            eightyPercent == (16 * base.n + 10 * base.d) \div (20 * base.d)
            sixtyPercent  == (12 * base.n + 10 * base.d) \div (20 * base.d)
        IN  /\ eightyPercent >= sixtyPercent
            /\ \A k \in 1..Len(event.result.value) :
                  event.result.value[k].price >= eightyPercent

C29_Witness ==
    /\ HistoryRequestAnswered
    /\ BasePrice(event.response) = [n |-> 501, d |-> 2]
    /\ \E k \in 1..Len(event.result.value) : event.result.value[k].price = 200
    /\ \E k \in 1..Len(event.result.value) : event.result.value[k].price > 300

\* C30: if any one offer of a successful offers response has no itinerary,
\* or a first itinerary without segment, searchFlights fails as a whole: it
\* returns no FlightOffer for the well-formed offers of the same response.
C30_OneMalformedOfferFailsSearch ==
    (/\ OffersRequestSucceeded
     /\ \E i \in 1..Len(event.response.data) :
           ~HasFirstSegment(event.response.data[i]))
    => event.result.kind = "error"

C30_Witness ==
    /\ OffersRequestSucceeded
    /\ Len(event.response.data) = 2
    /\ HasFirstSegment(event.response.data[1])
    /\ event.response.data[2].itineraries = <<>>
    /\ event.result.kind = "error"

\* the calls of searchFlights the search button started that are in flight
SearchesInFlight == {p \in Calls : op[p] = "searchFlights"}

\* C31: at most one searchFlights call of the search button is in flight at
\* a time, and isLoading is true exactly while one is; when a search has
\* just ended isLoading is false, and when it ended in an error the flight
\* list is empty.
C31_OneSearchEndsClean ==
    /\ Cardinality(SearchesInFlight) <= 1
    /\ app.isLoading <=> SearchesInFlight # {}
    /\ SettledOp("searchFlights") => ~app.isLoading
    /\ (SettledOp("searchFlights") /\ event.result.kind = "error")
           => app.flights = <<>>

\* a search that waited for the data endpoint has just failed: the page is
\* not loading and shows no flights
C31_FailedSearchEnded ==
    /\ SettledOp("searchFlights")
    /\ event.stage = "data"
    /\ event.result.kind = "error"
    /\ ~app.isLoading
    /\ app.hasSearched
    /\ app.flights = <<>>

\* C32: while the origin input, the only one that is looked up, holds fewer
\* than two characters, the suggestion list is empty and hidden: the answer
\* of a lookup that an earlier edit scheduled does not fill or show it.
C32_ShortInputKeepsListEmpty ==
    Len(app.searchForm.origin) < MinKeyword
        => /\ app.airportSuggestions = <<>>
           /\ app.showSuggestions = "null"

====
